---------------------------- MODULE Spec2Model ----------------------------
(***************************************************************************)
(* Model of the Catalog Builder API (backend/main.py): the POST /generate  *)
(* handler generate_content, its request validator GenerateRequest, the    *)
(* two collaborator calls (create_product_brief: text generation,          *)
(* create_product_images: image generation) and the merge into             *)
(* GenerateResponse.                                                       *)
(*                                                                         *)
(* A request is a coroutine; it yields only at its two awaits (line 78 and *)
(* line 155).  Everything between two awaits runs without interleaving     *)
(* (single-threaded asyncio), so each action below is one such run.        *)
(*                                                                         *)
(* Python values are tagged records: a missing attribute / dict key is     *)
(* Missing, None is None_, a str is Str(s), a list is List(items), a dict  *)
(* is Dict(d).  Python exceptions are records with the exception type and  *)
(* the text str(exc) returns.                                              *)
(***************************************************************************)
EXTENDS Naturals, Sequences, FiniteSets, TLC

VARIABLES
    client,       \* the module-level AsyncOpenAI client (line 27)
    pc,           \* per request: where the coroutine generate_content is
    request,      \* per request: the JSON body of the POST
    payload,      \* per request: the validated GenerateRequest (parameter `payload`)
    brief,        \* per request: local `brief` of generate_content
    image_urls,   \* per request: local `image_urls` of generate_content
    response,     \* per request: the HTTP response sent (status 0: none yet)
    inflight,     \* per request: collaborator calls issued and not yet completed
    textCalls,    \* per request: number of client.responses.create calls issued
    imageCalls,   \* per request: number of client.images.generate calls issued
    prompt,       \* per request: arguments interpolated into the image prompt
    textReply,    \* per request: what the text collaborator answered
    imageReply    \* per request: what the image collaborator answered

vars == <<client, pc, request, payload, brief, image_urls, response, inflight,
          textCalls, imageCalls, prompt, textReply, imageReply>>

---------------------------------------------------------------------------
(* Bounds of the model *)

NumRequests == 2
MaxSources == 2
MaxImages == 2
MaxBullets == 7

(* Field constraints of GenerateRequest *)

ProductNameMin == 2
ProductNameMax == 150
CountryMin == 2
CountryMax == 120
LanguageMin == 2
LanguageMax == 60
PromptBullets == 3

Requests == 1 .. NumRequests

---------------------------------------------------------------------------
(* Python values *)

Missing == [kind |-> "missing"]
None_ == [kind |-> "none"]
Str(s) == [kind |-> "str", s |-> s]
StrOfLen(n) == [kind |-> "strlen", len |-> n]
List(xs) == [kind |-> "list", items |-> xs]
Dict(d) == [kind |-> "dict", d |-> d]

IsStr(v) == v.kind = "str"
IsList(v) == v.kind = "list"
IsDict(v) == v.kind = "dict"

(* Python exceptions; `text` is str(exc) *)
Exc(type, text) == [type |-> type, text |-> text, status_code |-> 0, detail |-> ""]

(* HTTPException(status_code=502, detail=...): the only one the code raises *)
BadGateway(detail) ==
    [type |-> "HTTPException", text |-> "502: " \o detail,
     status_code |-> 502, detail |-> detail]

Ok(v) == [ok |-> TRUE, val |-> v]
Raise(e) == [ok |-> FALSE, exc |-> e]

NotSubscriptable == Exc("TypeError", "'NoneType' object is not subscriptable")
NotIterable == Exc("TypeError", "'NoneType' object is not iterable")
NotAMapping == Exc("TypeError", "argument after ** must be a mapping, not str")
KeyError(k) == Exc("KeyError", "'" \o k \o "'")

StartsWith(s, p) == Len(s) >= Len(p) /\ SubSeq(s, 1, Len(p)) = p

RECURSIVE SeqsUpTo(_, _)
SeqsUpTo(S, n) ==
    IF n = 0 THEN {<<>>}
    ELSE LET shorter == SeqsUpTo(S, n - 1)
         IN  shorter \cup {Append(q, x) : q \in shorter, x \in S}

---------------------------------------------------------------------------
(* Request Validator: GenerateRequest, lines 40-44.  A str field is        *)
(* represented by its length; only the length is constrained.              *)

(* LenOk with min_length left out *)
LenOkNoMin(v, lo, hi) == v.kind = "strlen" /\ v.len <= hi

LenOk(v, lo, hi) == v.kind = "strlen" /\ v.len >= lo /\ v.len <= hi

GenerateRequest(raw) ==
    IF /\ LenOk(raw.product_name, ProductNameMin, ProductNameMax)
       /\ LenOk(raw.country, CountryMin, CountryMax)
       /\ LenOk(raw.language, LanguageMin, LanguageMax)
       /\ (raw.keywords = Missing \/ IsList(raw.keywords))
    THEN Ok([product_name |-> raw.product_name,
             keywords |-> IF raw.keywords = Missing THEN List(<<>>) ELSE raw.keywords,
             country |-> raw.country,
             language |-> raw.language])
    ELSE Raise(Exc("RequestValidationError", "validation error for GenerateRequest"))

---------------------------------------------------------------------------
(* What FastAPI sends for each way the handler can end *)

NoResponse == [status |-> 0, detail |-> "", body |-> Missing]
JSONResponse(body) == [status |-> 200, detail |-> "", body |-> body]
ErrorResponse(code, detail) == [status |-> code, detail |-> detail, body |-> Missing]

(* An HTTPException becomes its status and detail; any other exception     *)
(* leaving the handler is an unhandled server error.                       *)
ExceptionResponse(e) ==
    IF e.type = "HTTPException" THEN ErrorResponse(e.status_code, e.detail)
    ELSE IF e.type = "RequestValidationError" THEN ErrorResponse(422, e.text)
    ELSE ErrorResponse(500, "Internal Server Error")

---------------------------------------------------------------------------
(* create_product_brief, lines 140-145: response.output[0].content[0].parsed *)

GetAttr(obj, name) ==
    IF obj[name] = Missing
    THEN Raise(Exc("AttributeError", "object has no attribute '" \o name \o "'"))
    ELSE Ok(obj[name])

Index0(v) ==
    IF IsList(v)
    THEN IF Len(v.items) = 0
         THEN Raise(Exc("IndexError", "list index out of range"))
         ELSE Ok(v.items[1])
    ELSE Raise(NotSubscriptable)

ParsedOf(node) == GetAttr(node, "parsed")

ContentOf(item) ==
    LET content == GetAttr(item, "content")
        node == Index0(content.val)
    IN  IF ~content.ok THEN content
        ELSE IF ~node.ok THEN node
        ELSE ParsedOf(node.val)

OutputOf(resp) ==
    LET output == GetAttr(resp, "output")
        item == Index0(output.val)
    IN  IF ~output.ok THEN output
        ELSE IF ~item.ok THEN item
        ELSE ContentOf(item.val)

MalformedDetail == "Malformed response from language model"

ExtractParsed(resp) ==
    LET got == OutputOf(resp)
    IN  IF got.ok THEN got
        ELSE IF got.exc.type \in {"AttributeError", "IndexError"}
        THEN Raise(BadGateway(MalformedDetail))
        ELSE got

(* create_product_brief as a whole: `res` is how the await of line 78 ended *)
create_product_brief(res) == IF res.ok THEN ExtractParsed(res.val) ELSE res

(* generate_content, lines 168-173 *)
BriefOrError(res) ==
    LET b == create_product_brief(res)
    IN  IF b.ok THEN b
        ELSE IF b.exc.type = "HTTPException" THEN b
        ELSE Raise(BadGateway(b.exc.text))

---------------------------------------------------------------------------
(* generate_content line 176 and create_product_images lines 150-153:      *)
(* what runs between the brief and the await of the image call             *)

GetItem(d, key) ==
    IF ~IsDict(d) THEN Raise(NotSubscriptable)
    ELSE IF d.d[key] = Missing THEN Raise(KeyError(key))
    ELSE Ok(d.d[key])

FirstN(xs, n) == SubSeq(xs, 1, IF Len(xs) < n THEN Len(xs) ELSE n)

ImagePrompt(product_name, bullet_points) ==
    IF IsList(bullet_points)
    THEN Ok([product_name |-> product_name,
             bullet_points |-> FirstN(bullet_points.items, PromptBullets)])
    ELSE Raise(NotSubscriptable)

ImageFailedPrefix == "Image generation failed: "

(* ImageFailed without its prefix *)
ImageFailedBare(e) == Raise(BadGateway(e.text))

ImageFailed(e) == Raise(BadGateway(ImageFailedPrefix \o e.text))

(* Ok(prompt) when the image call is issued, else the 502 of line 179 *)
BeforeImageCall(p, b) ==
    LET bp == GetItem(b, "bullet_points")
    IN  IF ~bp.ok THEN ImageFailed(bp.exc)
        ELSE LET pr == ImagePrompt(p.product_name, bp.val)
             IN  IF pr.ok THEN pr ELSE ImageFailed(pr.exc)

---------------------------------------------------------------------------
(* create_product_images line 163 *)

Truthy(v) == IsStr(v) /\ v.s # ""

RECURSIVE UrlsOf(_)
UrlsOf(data) ==
    IF data = <<>> THEN <<>>
    ELSE IF Truthy(Head(data).url) THEN <<Head(data).url.s>> \o UrlsOf(Tail(data))
    ELSE UrlsOf(Tail(data))

(* CollectUrls insisting on at least one URL *)
CollectUrlsAtLeastOne(resp) ==
    IF IsList(resp.data) /\ UrlsOf(resp.data.items) # <<>>
    THEN Ok(UrlsOf(resp.data.items))
    ELSE Raise(Exc("ValueError", "no image returned"))

CollectUrls(resp) ==
    IF IsList(resp.data) THEN Ok(UrlsOf(resp.data.items)) ELSE Raise(NotIterable)

(* create_product_images after its await: `res` is how line 155 ended *)
create_product_images(res) == IF res.ok THEN CollectUrls(res.val) ELSE res

---------------------------------------------------------------------------
(* Source and GenerateResponse, lines 47-57, and the merge, lines 181-190 *)

(* HttpUrl: an http or https URL.  An accepted URL is kept as the string   *)
(* given; no property below reads the text of an accepted URL.             *)
IsHttpUrl(s) ==
    \/ StartsWith(s, "http://") /\ Len(s) > Len("http://")
    \/ StartsWith(s, "https://") /\ Len(s) > Len("https://")

SourceError == Exc("ValidationError", "1 validation error for Source")
ResponseError == Exc("ValidationError", "validation error for GenerateResponse")

(* line 187: Source built from the keys of one element of brief sources *)
Source(source) ==
    IF ~IsDict(source) THEN Raise(NotAMapping)
    ELSE IF /\ IsStr(source.d.name)
            /\ IsStr(source.d.url)
            /\ IsHttpUrl(source.d.url.s)
    THEN Ok([name |-> source.d.name.s, url |-> source.d.url.s])
    ELSE Raise(SourceError)

(* line 187, the list comprehension: the first failing element raises *)
RECURSIVE SourcesFrom(_)
SourcesFrom(xs) ==
    IF xs = <<>> THEN Ok(<<>>)
    ELSE LET h == Source(Head(xs))
         IN  IF ~h.ok THEN h
             ELSE LET t == SourcesFrom(Tail(xs))
                  IN  IF t.ok THEN Ok(<<h.val>> \o t.val) ELSE t

SourceList(v) == IF IsList(v) THEN SourcesFrom(v.items) ELSE Raise(NotIterable)

(* GenerateResponse(...): field validation of the assembled arguments *)
GenerateResponse(desc, bullets, blurb, urls, sources) ==
    IF /\ IsStr(desc)
       /\ IsList(bullets)
       /\ IsStr(blurb)
       /\ \A i \in 1 .. Len(urls) : IsHttpUrl(urls[i])
    THEN Ok([product_description |-> desc.s,
             bullet_points |-> bullets.items,
             marketing_blurb |-> blurb.s,
             image_urls |-> urls,
             sources |-> sources])
    ELSE Raise(ResponseError)

(* lines 182-188: the keyword arguments are evaluated in order *)
BuildResponse(b, bullets, urls) ==
    LET desc == GetItem(b, "product_description")
        blurb == GetItem(b, "marketing_blurb")
        srcv == GetItem(b, "sources")
        srcs == IF srcv.ok THEN SourceList(srcv.val) ELSE srcv
    IN  IF ~desc.ok THEN desc
        ELSE IF ~blurb.ok THEN blurb
        ELSE IF ~srcs.ok THEN srcs
        ELSE GenerateResponse(desc.val, bullets, blurb.val, urls, srcs.val)

InvalidPrefix == "Invalid model response: "

(* lines 181-192 *)
MergeOrError(b, bullets, urls) ==
    LET r == BuildResponse(b, bullets, urls)
    IN  IF r.ok THEN r
        ELSE IF r.exc.type \in {"ValidationError", "KeyError"}
        THEN Raise(BadGateway(InvalidPrefix \o r.exc.text))
        ELSE r

(* lines 177-192 after the await of the image call *)
AfterImageCall(b, res) ==
    LET urls == create_product_images(res)
    IN  IF ~urls.ok THEN ImageFailed(urls.exc)
        ELSE MergeOrError(b, b.d.bullet_points, urls.val)

---------------------------------------------------------------------------
(* The handler as a coroutine.  pc: "idle" (no request yet), "await_text"  *)
(* (suspended at line 78), "await_image" (suspended at line 155), "done".  *)

Pending == [pending |-> TRUE]

Init ==
    /\ client = [api_key |-> "OPENAI_API_KEY"]
    /\ pc = [r \in Requests |-> "idle"]
    /\ request = [r \in Requests |-> Missing]
    /\ payload = [r \in Requests |-> Missing]
    /\ brief = [r \in Requests |-> Missing]
    /\ image_urls = [r \in Requests |-> <<>>]
    /\ response = [r \in Requests |-> NoResponse]
    /\ inflight = [r \in Requests |-> {}]
    /\ textCalls = [r \in Requests |-> 0]
    /\ imageCalls = [r \in Requests |-> 0]
    /\ prompt = [r \in Requests |-> Missing]
    /\ textReply = [r \in Requests |-> Pending]
    /\ imageReply = [r \in Requests |-> Pending]

(* Accept issuing both collaborator calls at once *)
AcceptBoth(r, raw) ==
    /\ request' = [request EXCEPT ![r] = raw]
    /\ LET v == GenerateRequest(raw)
       IN  IF v.ok
           THEN /\ payload' = [payload EXCEPT ![r] = v.val]
                /\ textCalls' = [textCalls EXCEPT ![r] = @ + 1]
                /\ imageCalls' = [imageCalls EXCEPT ![r] = @ + 1]
                /\ inflight' = [inflight EXCEPT ![r] = @ \cup {"text", "image"}]
                /\ pc' = [pc EXCEPT ![r] = "await_text"]
                /\ UNCHANGED response
           ELSE /\ response' = [response EXCEPT ![r] = ExceptionResponse(v.exc)]
                /\ pc' = [pc EXCEPT ![r] = "done"]
                /\ UNCHANGED <<payload, textCalls, imageCalls, inflight>>
    /\ UNCHANGED <<client, brief, image_urls, prompt, textReply, imageReply>>

(* POST /generate arrives with body `raw`: FastAPI validates it (lines     *)
(* 40-44, 167); a valid one enters generate_content, which runs to the     *)
(* await of line 78                                                        *)
Accept(r, raw) ==
    /\ request' = [request EXCEPT ![r] = raw]
    /\ LET v == GenerateRequest(raw)
       IN  IF v.ok
           THEN /\ payload' = [payload EXCEPT ![r] = v.val]
                /\ textCalls' = [textCalls EXCEPT ![r] = @ + 1]
                /\ inflight' = [inflight EXCEPT ![r] = @ \cup {"text"}]
                /\ pc' = [pc EXCEPT ![r] = "await_text"]
                /\ UNCHANGED response
           ELSE /\ response' = [response EXCEPT ![r] = ExceptionResponse(v.exc)]
                /\ pc' = [pc EXCEPT ![r] = "done"]
                /\ UNCHANGED <<payload, textCalls, inflight>>
    /\ UNCHANGED <<client, brief, image_urls, imageCalls, prompt, textReply, imageReply>>

(* TextCompletes keeping the brief in one module-level slot shared by all  *)
(* requests                                                                *)
TextCompletesShared(r, res) ==
    /\ pc[r] = "await_text"
    /\ textReply' = [textReply EXCEPT ![r] = res]
    /\ LET b == BriefOrError(res)
           pr == BeforeImageCall(payload[r], b.val)
       IN  IF ~b.ok
           THEN /\ response' = [response EXCEPT ![r] = ExceptionResponse(b.exc)]
                /\ pc' = [pc EXCEPT ![r] = "done"]
                /\ inflight' = [inflight EXCEPT ![r] = @ \ {"text"}]
                /\ UNCHANGED <<brief, prompt, imageCalls>>
           ELSE /\ brief' = [q \in Requests |-> b.val]
                /\ IF pr.ok
                   THEN /\ prompt' = [prompt EXCEPT ![r] = pr.val]
                        /\ imageCalls' = [imageCalls EXCEPT ![r] = @ + 1]
                        /\ inflight' = [inflight EXCEPT ![r] = (@ \ {"text"}) \cup {"image"}]
                        /\ pc' = [pc EXCEPT ![r] = "await_image"]
                        /\ UNCHANGED response
                   ELSE /\ response' = [response EXCEPT ![r] = ExceptionResponse(pr.exc)]
                        /\ pc' = [pc EXCEPT ![r] = "done"]
                        /\ inflight' = [inflight EXCEPT ![r] = @ \ {"text"}]
                        /\ UNCHANGED <<prompt, imageCalls>>
    /\ UNCHANGED <<client, request, payload, image_urls, textCalls, imageReply>>

(* The await of line 78 ends with `res`; the handler runs lines 140-145,   *)
(* 168-177 and 150-155, up to the await of line 155 or to an exception.    *)
TextCompletes(r, res) ==
    /\ pc[r] = "await_text"
    /\ textReply' = [textReply EXCEPT ![r] = res]
    /\ LET b == BriefOrError(res)
           pr == BeforeImageCall(payload[r], b.val)
       IN  IF ~b.ok
           THEN /\ response' = [response EXCEPT ![r] = ExceptionResponse(b.exc)]
                /\ pc' = [pc EXCEPT ![r] = "done"]
                /\ inflight' = [inflight EXCEPT ![r] = @ \ {"text"}]
                /\ UNCHANGED <<brief, prompt, imageCalls>>
           ELSE /\ brief' = [brief EXCEPT ![r] = b.val]
                /\ IF pr.ok
                   THEN /\ prompt' = [prompt EXCEPT ![r] = pr.val]
                        /\ imageCalls' = [imageCalls EXCEPT ![r] = @ + 1]
                        /\ inflight' = [inflight EXCEPT ![r] = (@ \ {"text"}) \cup {"image"}]
                        /\ pc' = [pc EXCEPT ![r] = "await_image"]
                        /\ UNCHANGED response
                   ELSE /\ response' = [response EXCEPT ![r] = ExceptionResponse(pr.exc)]
                        /\ pc' = [pc EXCEPT ![r] = "done"]
                        /\ inflight' = [inflight EXCEPT ![r] = @ \ {"text"}]
                        /\ UNCHANGED <<prompt, imageCalls>>
    /\ UNCHANGED <<client, request, payload, image_urls, textCalls, imageReply>>

(* client.responses.create returns one of `replies` / raises one of `errors` *)
TextReturns(r, replies) ==
    /\ pc[r] = "await_text"
    /\ \E resp \in replies : TextCompletes(r, Ok(resp))

TextRaises(r, errors) ==
    /\ pc[r] = "await_text"
    /\ \E e \in errors : TextCompletes(r, Raise(e))

(* ImageCompletes calling the image collaborator once more when it raised *)
ImageCompletesRetry(r, res) ==
    /\ pc[r] = "await_image"
    /\ imageReply' = [imageReply EXCEPT ![r] = res]
    /\ LET urls == create_product_images(res)
           out == AfterImageCall(brief[r], res)
       IN  IF ~res.ok /\ imageCalls[r] < 2
           THEN /\ imageCalls' = [imageCalls EXCEPT ![r] = @ + 1]
                /\ UNCHANGED <<pc, inflight, image_urls, response>>
           ELSE /\ image_urls' = [image_urls EXCEPT ![r] = IF urls.ok THEN urls.val ELSE @]
                /\ response' = [response EXCEPT ![r] =
                       IF out.ok THEN JSONResponse(out.val) ELSE ExceptionResponse(out.exc)]
                /\ inflight' = [inflight EXCEPT ![r] = @ \ {"image"}]
                /\ pc' = [pc EXCEPT ![r] = "done"]
                /\ UNCHANGED imageCalls
    /\ UNCHANGED <<client, request, payload, brief, textCalls, prompt, textReply>>

(* The await of line 155 ends with `res`; the handler runs lines 163 and   *)
(* 178-192 to its end.                                                     *)
ImageCompletes(r, res) ==
    /\ pc[r] = "await_image"
    /\ imageReply' = [imageReply EXCEPT ![r] = res]
    /\ inflight' = [inflight EXCEPT ![r] = @ \ {"image"}]
    /\ LET urls == create_product_images(res)
           out == AfterImageCall(brief[r], res)
       IN  /\ image_urls' = [image_urls EXCEPT ![r] = IF urls.ok THEN urls.val ELSE @]
           /\ response' = [response EXCEPT ![r] =
                  IF out.ok THEN JSONResponse(out.val) ELSE ExceptionResponse(out.exc)]
    /\ pc' = [pc EXCEPT ![r] = "done"]
    /\ UNCHANGED <<client, request, payload, brief, textCalls, imageCalls, prompt, textReply>>

(* client.images.generate returns one of `replies` / raises one of `errors` *)
ImageReturns(r, replies) ==
    /\ pc[r] = "await_image"
    /\ \E resp \in replies : ImageCompletes(r, Ok(resp))

ImageRaises(r, errors) ==
    /\ pc[r] = "await_image"
    /\ \E e \in errors : ImageCompletes(r, Raise(e))

(* POST /generate arrives with one of `bodies` *)
Receive(r, bodies) ==
    /\ pc[r] = "idle"
    /\ \E raw \in bodies : Accept(r, raw)

---------------------------------------------------------------------------
(* Inputs: request bodies and collaborator behaviours, from bounded sets *)

GoodUrl == "https://shop.example/p"
BadUrl == "shop example"

Lengths(lo, hi) == {Missing} \cup {StrOfLen(n) : n \in {lo - 1, lo, hi, hi + 1}}

KeywordValues == {Missing, List(<<"ergonomic">>)}

AllBodies ==
    [product_name : Lengths(ProductNameMin, ProductNameMax),
     keywords : KeywordValues,
     country : Lengths(CountryMin, CountryMax),
     language : Lengths(LanguageMin, LanguageMax)]

(* the spec's example request, and one the validator rejects *)
ExampleBody ==
    [product_name |-> StrOfLen(14), keywords |-> List(<<"ergonomic">>),
     country |-> StrOfLen(7), language |-> StrOfLen(6)]
ShortNameBody == [ExampleBody EXCEPT !.product_name = StrOfLen(1)]
SampleBodies == {ExampleBody, ShortNameBody}

BulletDigits == "123456789"
Bullet(i) == "b" \o SubSeq(BulletDigits, i, i)
Bullets(n) == [i \in 1 .. n |-> Bullet(i)]

SourceValues ==
    { Str("retailer"),
      Dict([name |-> Str("Shop"), url |-> Str(GoodUrl)]),
      Dict([name |-> Str("Shop"), url |-> Missing]),
      Dict([name |-> Missing, url |-> Str(GoodUrl)]),
      Dict([name |-> Str("Shop"), url |-> Str(BadUrl)]) }

BriefOf(pd, bp, mb, so) ==
    Dict([product_description |-> pd, bullet_points |-> bp,
          marketing_blurb |-> mb, sources |-> so])

Briefs ==
    { BriefOf(pd, bp, mb, so) :
        pd \in {Missing, Str(""), Str("desc")},
        bp \in {Missing, None_} \cup {List(Bullets(n)) : n \in 0 .. MaxBullets},
        mb \in {Missing, Str(""), Str("blurb")},
        so \in {Missing, None_} \cup {List(xs) : xs \in SeqsUpTo(SourceValues, MaxSources)} }

(* a reply of the text collaborator whose content node carries `p` *)
ReplyWith(p) == [output |-> List(<<[content |-> List(<<[parsed |-> p]>>)]>>)]

BrokenReplies ==
    { [output |-> Missing], [output |-> None_], [output |-> List(<<>>)],
      [output |-> List(<<[content |-> Missing]>>)],
      [output |-> List(<<[content |-> None_]>>)],
      [output |-> List(<<[content |-> List(<<>>)]>>)],
      ReplyWith(Missing), ReplyWith(None_) }

TextReplies == BrokenReplies \cup {ReplyWith(b) : b \in Briefs}

UpstreamErrors ==
    { Exc("APITimeoutError", "Request timed out."),
      Exc("RateLimitError", "quota exceeded") }

ImageEntries ==
    { [url |-> Missing], [url |-> Str("")], [url |-> Str(GoodUrl)], [url |-> Str(BadUrl)] }

ImageReplies ==
    {[data |-> None_]} \cup {[data |-> List(xs)] : xs \in SeqsUpTo(ImageEntries, MaxImages)}

(* the spec's example brief, and a few replies around it *)
ExampleBrief ==
    BriefOf(Str("desc"), List(Bullets(3)), Str("blurb"),
            List(<<Dict([name |-> Str("Shop"), url |-> Str(GoodUrl)])>>))

SampleTextReplies ==
    { ReplyWith(ExampleBrief),
      ReplyWith(BriefOf(Str("desc"), List(Bullets(4)), Str("blurb"), Missing)),
      ReplyWith(BriefOf(Str("desc"), List(Bullets(2)), Str("blurb"), None_)),
      ReplyWith(BriefOf(Str("desc"), Missing, Str("blurb"), List(<<>>))),
      ReplyWith(None_),
      [output |-> List(<<>>)] }

SampleImageReplies ==
    { [data |-> List(<<[url |-> Str(GoodUrl)]>>)],
      [data |-> List(<<[url |-> Str(BadUrl)]>>)],
      [data |-> List(<<>>)] }

SampleErrors == {Exc("APITimeoutError", "Request timed out.")}

---------------------------------------------------------------------------
(* Spec: one request, every collaborator behaviour of the bounded sets *)

First == CHOOSE r \in Requests : \A q \in Requests : r <= q

Next ==
    \/ Receive(First, SampleBodies)
    \/ TextReturns(First, TextReplies)
    \/ TextRaises(First, UpstreamErrors)
    \/ ImageReturns(First, ImageReplies)
    \/ ImageRaises(First, UpstreamErrors)

Spec == Init /\ [][Next]_vars

(* SpecInput: one request, every request body of the bounded set *)
NextInput ==
    \/ Receive(First, AllBodies)
    \/ TextReturns(First, SampleTextReplies)
    \/ TextRaises(First, SampleErrors)
    \/ ImageReturns(First, SampleImageReplies)
    \/ ImageRaises(First, SampleErrors)

SpecInput == Init /\ [][NextInput]_vars

(* SpecConc: all requests handled concurrently, interleaved at their awaits *)
NextConc ==
    \E r \in Requests :
        \/ Receive(r, SampleBodies)
        \/ TextReturns(r, SampleTextReplies)
        \/ TextRaises(r, SampleErrors)
        \/ ImageReturns(r, SampleImageReplies)
        \/ ImageRaises(r, SampleErrors)

SpecConc == Init /\ [][NextConc]_vars

---------------------------------------------------------------------------
(* Properties *)

Done(r) == pc[r] = "done"
Returned(reply) == reply # Pending /\ reply.ok
Raised(reply) == reply # Pending /\ ~reply.ok

(* a str field of the request body whose length is outside lo..hi, or that *)
(* is not there                                                            *)
OutOfRange(v, lo, hi) == v = Missing \/ v.len < lo \/ v.len > hi

ViolatesFieldConstraint(raw) ==
    \/ OutOfRange(raw.product_name, 2, 150)
    \/ OutOfRange(raw.country, 2, 120)
    \/ OutOfRange(raw.language, 2, 60)

(* C1: a request body that violates a field constraint (product_name       *)
(* length outside 2..150, country outside 2..120, language outside 2..60,  *)
(* or a required field missing) is rejected with a validation error and    *)
(* neither collaborator is called for it.                                  *)
C1_RejectedBeforeAnyCall ==
    \A r \in Requests :
        (request[r] # Missing /\ ViolatesFieldConstraint(request[r])) =>
            /\ Done(r)
            /\ response[r].status = 422
            /\ payload[r] = Missing
            /\ textCalls[r] = 0
            /\ imageCalls[r] = 0
            /\ inflight[r] = {}

C1_Witness ==
    \E r \in Requests :
        /\ Done(r)
        /\ request[r] # Missing
        /\ request[r].product_name # Missing
        /\ request[r].country # Missing
        /\ request[r].language = StrOfLen(1)
        /\ ~OutOfRange(request[r].product_name, 2, 150)
        /\ ~OutOfRange(request[r].country, 2, 120)
        /\ response[r].status = 422

(* the reply of the text collaborator carries no parsed document: output   *)
(* absent or empty, content node absent or empty, parsed document absent   *)
Absent(v) == v = Missing \/ v = None_
Empty(v) == IsList(v) /\ v.items = <<>>

LacksParsed(reply) ==
    \/ Absent(reply.output)
    \/ Empty(reply.output)
    \/ Absent(reply.output.items[1].content)
    \/ Empty(reply.output.items[1].content)
    \/ Absent(reply.output.items[1].content.items[1].parsed)

(* C2: for a valid request, when the text collaborator's reply lacks the   *)
(* parsed content, the response is 502 with detail exactly "Malformed      *)
(* response from language model" and the image collaborator is not called. *)
C2_MalformedReplyIs502 ==
    \A r \in Requests :
        (Done(r) /\ Returned(textReply[r]) /\ LacksParsed(textReply[r].val)) =>
            /\ response[r].status = 502
            /\ response[r].detail = "Malformed response from language model"
            /\ imageCalls[r] = 0

(* C3: when the brief was obtained and the image collaborator call raises, *)
(* the response is 502, its detail is "Image generation failed: " followed *)
(* by the upstream error text, and nothing of the brief is returned.       *)
C3_ImageFailureIs502 ==
    \A r \in Requests :
        Raised(imageReply[r]) =>
            /\ Done(r)
            /\ response[r].status = 502
            /\ StartsWith(response[r].detail, "Image generation failed: ")
            /\ response[r].detail = "Image generation failed: " \o imageReply[r].exc.text
            /\ response[r].body = Missing

C3_Witness ==
    \E r \in Requests :
        /\ Done(r)
        /\ Raised(imageReply[r])
        /\ Returned(textReply[r])
        /\ IsDict(brief[r])
        /\ imageCalls[r] = 1

(* an absolute URI: a non-empty scheme, "://", and something after it *)
WellFormedUri(s) ==
    \E i \in 2 .. Len(s) : i + 3 <= Len(s) /\ SubSeq(s, i, i + 2) = "://"

RequiredKeys == {"product_description", "bullet_points", "marketing_blurb", "sources"}

KeyMissing(b) == \E k \in RequiredKeys : b.d[k] = Missing

SourceDicts(b) ==
    IF b.d.sources # Missing /\ IsList(b.d.sources)
    THEN {b.d.sources.items[i] : i \in 1 .. Len(b.d.sources.items)} \ {Str("retailer")}
    ELSE {}

BadSource(b) ==
    \E src \in SourceDicts(b) :
        \/ src.d.name = Missing
        \/ src.d.url = Missing
        \/ ~WellFormedUri(src.d.url.s)

(* the URLs the image collaborator returned: the entries whose url is a    *)
(* non-empty string, in the order returned                                 *)
HasUrl(entry) == entry.url # Missing /\ entry.url # Str("")

ReturnedUrls(reply) ==
    LET kept == SelectSeq(reply.data.items, HasUrl)
    IN  [i \in 1 .. Len(kept) |-> kept[i].url.s]

GaveUrls(reply) == Returned(reply) /\ IsList(reply.val.data)

BadImageUrl(reply) ==
    /\ GaveUrls(reply)
    /\ \E i \in 1 .. Len(ReturnedUrls(reply.val)) : ~WellFormedUri(ReturnedUrls(reply.val)[i])

(* C4: for a valid request whose text reply carries a parsed brief, when   *)
(* the merged data fails shape validation (a required key missing from the *)
(* brief, a source without name or url, a source url or image url that is  *)
(* no well-formed absolute URI), the response is 502 with a detail that    *)
(* starts with "Invalid model response: ".  Stated for the requests whose  *)
(* image call, if issued, returned a list of entries.                      *)
C4_ShapeErrorIs502Invalid ==
    \A r \in Requests :
        ( /\ Done(r)
          /\ IsDict(brief[r])
          /\ imageReply[r] = Pending \/ GaveUrls(imageReply[r])
          /\ KeyMissing(brief[r]) \/ BadSource(brief[r]) \/ BadImageUrl(imageReply[r]) ) =>
            /\ response[r].status = 502
            /\ StartsWith(response[r].detail, "Invalid model response: ")

(* C5: a request that passed input validation ends with 200 and a          *)
(* GenerateResponse, or with 502 and a detail; no reply of a collaborator  *)
(* makes the handler end with another status.                              *)
C5_Only200Or502 ==
    \A r \in Requests :
        (Done(r) /\ payload[r] # Missing) =>
            \/ response[r].status = 200 /\ response[r].body # Missing
            \/ response[r].status = 502 /\ response[r].body = Missing

(* C6: when both collaborator calls return, a 200 response has 3 to 6      *)
(* bullet points, a non-empty product_description, a non-empty             *)
(* marketing_blurb, and sources that each have a name and a well-formed    *)
(* absolute URI.                                                           *)
C6_SuccessBodyShape ==
    \A r \in Requests :
        ( /\ Returned(textReply[r])
          /\ Returned(imageReply[r])
          /\ response[r].status = 200 ) =>
            /\ Len(response[r].body.bullet_points) >= 3
            /\ Len(response[r].body.bullet_points) <= 6
            /\ response[r].body.product_description # ""
            /\ response[r].body.marketing_blurb # ""
            /\ \A i \in 1 .. Len(response[r].body.sources) :
                   /\ response[r].body.sources[i].name # ""
                   /\ WellFormedUri(response[r].body.sources[i].url)

(* a brief with its four keys, each of the expected type, and sources that *)
(* each have a name and a well-formed url                                  *)
WellFormedBrief(b) ==
    /\ IsDict(b)
    /\ ~KeyMissing(b)
    /\ IsStr(b.d.product_description)
    /\ IsList(b.d.bullet_points)
    /\ IsStr(b.d.marketing_blurb)
    /\ IsList(b.d.sources)
    /\ \A i \in 1 .. Len(b.d.sources.items) : IsDict(b.d.sources.items[i])
    /\ ~BadSource(b)

C7_ImageOnlyAfterBrief ==
    \A r \in Requests :
        /\ ("image" \in inflight[r] \/ imageCalls[r] > 0) =>
               /\ Returned(textReply[r])
               /\ IsDict(brief[r])
               /\ textCalls[r] = 1
               /\ "text" \notin inflight[r]
        /\ inflight[r] # {"text", "image"}
        /\ "text" \in inflight[r] => imageReply[r] = Pending

C7_Witness ==
    \E r, q \in Requests :
        /\ r # q
        /\ inflight[r] = {"image"}
        /\ inflight[q] = {"text"}
        /\ IsDict(brief[r])

(* C8: no retry: a request calls the text collaborator at most once and    *)
(* the image collaborator at most once, and the first failure of either    *)
(* call ends the request with no further collaborator call.                *)
C8_NoRetry ==
    \A r \in Requests :
        /\ textCalls[r] <= 1
        /\ imageCalls[r] <= 1
        /\ Raised(textReply[r]) =>
               /\ Done(r)
               /\ response[r].status = 502
               /\ textCalls[r] = 1
               /\ imageCalls[r] = 0
               /\ inflight[r] = {}
        /\ Raised(imageReply[r]) =>
               /\ Done(r)
               /\ response[r].status = 502
               /\ textCalls[r] = 1
               /\ imageCalls[r] = 1
               /\ inflight[r] = {}
        /\ Done(r) => inflight[r] = {}

C8_Witness ==
    \E r, q \in Requests :
        /\ Raised(imageReply[r])
        /\ Raised(textReply[q])
        /\ Done(r)
        /\ Done(q)

(* what generate_content answers to a request body, given how its two      *)
(* collaborator calls ended: a function of these three alone               *)
OutcomeOf(raw, text, image) ==
    LET v == GenerateRequest(raw)
        b == BriefOrError(text)
        pr == BeforeImageCall(v.val, b.val)
        out == AfterImageCall(b.val, image)
    IN  IF ~v.ok THEN ExceptionResponse(v.exc)
        ELSE IF ~b.ok THEN ExceptionResponse(b.exc)
        ELSE IF ~pr.ok THEN ExceptionResponse(pr.exc)
        ELSE IF out.ok THEN JSONResponse(out.val)
        ELSE ExceptionResponse(out.exc)

OwnOutcome(r) == Done(r) => response[r] = OutcomeOf(request[r], textReply[r], imageReply[r])

(* a step leaves alone every request whose coroutine did not move *)
OthersUntouched ==
    \A q \in Requests :
        pc'[q] = pc[q] =>
            /\ request'[q] = request[q]
            /\ payload'[q] = payload[q]
            /\ brief'[q] = brief[q]
            /\ image_urls'[q] = image_urls[q]
            /\ response'[q] = response[q]
            /\ inflight'[q] = inflight[q]
            /\ textCalls'[q] = textCalls[q]
            /\ imageCalls'[q] = imageCalls[q]
            /\ prompt'[q] = prompt[q]
            /\ textReply'[q] = textReply[q]
            /\ imageReply'[q] = imageReply[q]

(* C10: requests are isolated under every interleaving of their awaits:    *)
(* the outcome of a request is decided by its own body and the replies to  *)
(* its own two calls, no step of one request changes the state of another, *)
(* and the shared client is never written.                                 *)
C10_Isolation ==
    /\ [](\A r \in Requests : OwnOutcome(r))
    /\ [][OthersUntouched /\ client' = client]_vars

C10_Witness ==
    \E r, q \in Requests :
        /\ r # q
        /\ Done(r)
        /\ response[r].status = 200
        /\ pc[q] = "await_image"
        /\ request[q] = request[r]
        /\ brief[q] # brief[r]

===========================================================================
